---- MODULE Spec2Model ----
(***************************************************************************)
(* The insight engine of the expense tracker (analytics.py): category     *)
(* normalisation, the food classifier, the fold of compute_insights, and   *)
(* the date-range functions split_range_by_month and                       *)
(* prorate_monthly_budget_for_range.                                       *)
(*                                                                         *)
(* Representation.  A Python str is the tuple of its characters, so that   *)
(* strip(), lower(), " ".join() and the substring test `k in s` are        *)
(* computed as the code computes them.  None is the value None below.      *)
(* A float amount is an integer number of thousandths of a currency unit   *)
(* (Rs(1800) is 1800.000), with exact arithmetic; round(x, 2) rounds to a  *)
(* multiple of ten thousandths.  A numeric field that may be absent is     *)
(* <<>> (absent or not a number) or <<v>>.  A date is [year, month, day];  *)
(* a function that can raise returns a record whose field raised tells.    *)
(***************************************************************************)
EXTENDS Integers, Sequences, FiniteSets, TLC

\* ------------------------------------------------------------ strings

\* Python's None in a text field: a one-element tuple that is no string of
\* single characters.
None == <<"\\None">>

Whitespace == {" ", "\t", "\n"}

UpperCase == <<"A", "B", "C", "D", "E", "F", "G", "H", "I", "J", "K", "L", "M",
               "N", "O", "P", "Q", "R", "S", "T", "U", "V", "W", "X", "Y", "Z">>

LowerCase == <<"a", "b", "c", "d", "e", "f", "g", "h", "i", "j", "k", "l", "m",
               "n", "o", "p", "q", "r", "s", "t", "u", "v", "w", "x", "y", "z">>

LowerChar(ch) ==
    IF \E k \in 1..26 : UpperCase[k] = ch
    THEN LowerCase[CHOOSE k \in 1..26 : UpperCase[k] = ch]
    ELSE ch

\* str.lower()
Lower(s) == [k \in 1..Len(s) |-> LowerChar(s[k])]

\* str.strip(): drops the leading and the trailing whitespace
Strip(s) ==
    LET keep == {k \in 1..Len(s) : s[k] \notin Whitespace}
    IN  IF keep = {} THEN <<>>
        ELSE LET lo == CHOOSE k \in keep : \A j \in keep : k <= j
                 hi == CHOOSE k \in keep : \A j \in keep : k >= j
             IN  SubSeq(s, lo, hi)

\* the substring test `sub in s`
Contains(sub, s) ==
    \E k \in 0..(Len(s) - Len(sub)) : SubSeq(s, k + 1, k + Len(sub)) = sub

\* `x or d` on a text field: None and "" are falsy
OrText(x, d) == IF x = None \/ x = <<>> THEN d ELSE x

\* " ".join(parts)
RECURSIVE JoinSpace(_)
JoinSpace(parts) ==
    IF parts = <<>> THEN <<>>
    ELSE IF Len(parts) = 1 THEN parts[1]
    ELSE parts[1] \o <<" ">> \o JoinSpace(Tail(parts))

\* ------------------------------------------------------------ numbers

\* n currency units in thousandths
Rs(n) == n * 1000

\* _to_float: float(x), or 0.0 when float(x) raises (None, not a number)
to_float(x) == IF Len(x) = 1 THEN x[1] ELSE 0

\* `x or y` on a numeric field: None and 0 are falsy
OrNum(x, y) == IF Len(x) = 1 /\ x[1] # 0 THEN x ELSE y

\* v rounded to the nearest multiple of unit, ties to the even multiple
RoundTo(v, unit) ==
    LET q == v \div unit
        r == v % unit
    IN  IF 2 * r < unit THEN q * unit
        ELSE IF 2 * r > unit THEN (q + 1) * unit
        ELSE IF q % 2 = 0 THEN q * unit ELSE (q + 1) * unit

\* round(v, 2)
Round2(v) == RoundTo(v, 10)

\* f"{v:,.0f}": the number printed, in whole currency units
Format0(v) == RoundTo(v, 1000) \div 1000

RECURSIVE SumSeq(_)
SumSeq(s) == IF s = <<>> THEN 0 ELSE s[1] + SumSeq(Tail(s))

RECURSIVE MaxSeq(_)
MaxSeq(s) ==
    IF Len(s) = 1 THEN s[1]
    ELSE LET m == MaxSeq(Tail(s)) IN IF s[1] >= m THEN s[1] ELSE m

\* ------------------------------------------------------------ constants

NECESSITY_BASE == {<<"r", "e", "n", "t">>, <<"g", "r", "o", "c", "e", "r", "y">>, <<"u", "t", "i", "l", "i", "t", "y">>, <<"f", "u", "e", "l">>, <<"t", "r", "a", "n", "s", "p", "o", "r", "t">>,
                   <<"h", "e", "a", "l", "t", "h">>, <<"e", "d", "u", "c", "a", "t", "i", "o", "n">>}

DISCRETIONARY_BASE == {<<"s", "h", "o", "p", "p", "i", "n", "g">>, <<"e", "n", "t", "e", "r", "t", "a", "i", "n", "m", "e", "n", "t">>, <<"c", "h", "a", "r", "i", "t", "y">>,
                       <<"s", "u", "b", "s", "c", "r", "i", "p", "t", "i", "o", "n", "s">>, <<"t", "r", "a", "v", "e", "l">>}

RESTAURANT_KEYWORDS == {
    <<"k", "f", "c">>, <<"m", "c", "d", "o", "n", "a", "l", "d">>, <<"m", "c", " ", "d", "o", "n", "a", "l", "d">>, <<"d", "o", "m", "i", "n", "o", "s">>, <<"d", "o", "m", "i", "n", "o">>, <<"p", "i", "z", "z", "a">>,
    <<"b", "u", "r", "g", "e", "r">>, <<"s", "h", "a", "w", "a", "r", "m", "a">>, <<"r", "e", "s", "t", "a", "u", "r", "a", "n", "t">>, <<"c", "a", "f", "e">>, <<"c", "o", "f", "f", "e", "e">>, <<"b", "i", "s", "t", "r", "o">>,
    <<"f", "o", "o", "d", "p", "a", "n", "d", "a">>, <<"f", "o", "o", "d", " ", "p", "a", "n", "d", "a">>, <<"c", "a", "r", "e", "e", "m", " ", "f", "o", "o", "d">>, <<"d", "e", "l", "i", "v", "e", "r", "y">>, <<"d", "i", "n", "e">>,
    <<"b", "b", "q">>, <<"k", "a", "r", "a", "h", "i">>, <<"n", "i", "h", "a", "r", "i">>}

HOME_FOOD_KEYWORDS == {
    <<"g", "r", "o", "c", "e", "r", "y">>, <<"s", "u", "p", "e", "r">>, <<"m", "a", "r", "t">>, <<"s", "t", "o", "r", "e">>, <<"c", "a", "s", "h", "&", "c", "a", "r", "r", "y">>,
    <<"c", "a", "s", "h", " ", "a", "n", "d", " ", "c", "a", "r", "r", "y">>, <<"i", "m", "t", "i", "y", "a", "z">>, <<"m", "e", "t", "r", "o">>, <<"u", "t", "i", "l", "i", "t", "y", " ", "s", "t", "o", "r", "e">>, <<"r", "a", "t", "i", "o", "n">>,
    <<"k", "i", "r", "a", "n", "a">>}

FOOD_EXPENSIVE_RS == Rs(1800)

EXCLUDE_CATS == {<<"f", "u", "n", "d", "s", "_", "t", "r", "a", "n", "s", "f", "e", "r">>}

\* ------------------------------------------------------------ helpers

\* _text_blob: the non-empty text fields joined by " ", lower-cased
RECURSIVE Truthy(_)
Truthy(parts) ==
    IF parts = <<>> THEN <<>>
    ELSE IF parts[1] = None \/ parts[1] = <<>> THEN Truthy(Tail(parts))
    ELSE <<parts[1]>> \o Truthy(Tail(parts))

text_blob(entry) ==
    LET parts == <<entry.title, entry.beneficiary_name, entry.raw_text,
                   entry.category, entry.category_normalized>>
    IN  Lower(JoinSpace(Truthy(parts)))

\* created_at is [kind, day, hour, off]:
\*   kind "none"      None
\*   kind "datetime"  a timezone-aware datetime object
\*   kind "iso"       a text datetime.fromisoformat accepts (after Z -> +00:00)
\*   kind "bad"       any other value: fromisoformat raises on str(ts)
\* day is the calendar day number and hour the hour of the day, both in the
\* zone of the value, whose UTC offset is off hours.
NoDatetime == [kind |-> "none", day |-> 0, hour |-> 0, off |-> 0]

\* _parse_ts: the datetime, or NoDatetime for None (the exception is caught)
parse_ts(ts) ==
    IF ts.kind = "none" THEN NoDatetime
    ELSE IF ts.kind = "datetime" THEN ts
    ELSE IF ts.kind = "iso" THEN [ts EXCEPT !.kind = "datetime"]
    ELSE NoDatetime

\* _day_key: the UTC calendar day of dt
day_key(dt) == (dt.day * 24 + dt.hour - dt.off) \div 24

\* normalize_category, with food tested before fund/transfer
normalize_category_FoodFirst(entry) ==
    LET cn == Lower(Strip(OrText(entry.category_normalized, <<>>)))
        c  == Lower(Strip(OrText(entry.category, <<>>)))
    IN  IF cn # <<>> THEN cn
        ELSE IF Contains(<<"u", "t", "i", "l", "i", "t", "y">>, c) THEN <<"u", "t", "i", "l", "i", "t", "y">>
        ELSE IF Contains(<<"f", "o", "o", "d">>, c) THEN <<"f", "o", "o", "d">>
        ELSE IF Contains(<<"f", "u", "n", "d">>, c) \/ Contains(<<"t", "r", "a", "n", "s", "f", "e", "r">>, c)
             THEN <<"f", "u", "n", "d", "s", "_", "t", "r", "a", "n", "s", "f", "e", "r">>
        ELSE IF Contains(<<"g", "r", "o", "c">>, c) THEN <<"g", "r", "o", "c", "e", "r", "y">>
        ELSE IF Contains(<<"s", "h", "o", "p">>, c) THEN <<"s", "h", "o", "p", "p", "i", "n", "g">>
        ELSE IF Contains(<<"f", "u", "e", "l">>, c) \/ Contains(<<"p", "e", "t", "r", "o", "l">>, c) THEN <<"f", "u", "e", "l">>
        ELSE IF Contains(<<"r", "e", "n", "t">>, c) THEN <<"r", "e", "n", "t">>
        ELSE OrText(c, <<"o", "t", "h", "e", "r">>)

\* normalize_category, returning the raw category without the "other" default
normalize_category_NoDefault(entry) ==
    LET cn == Lower(Strip(OrText(entry.category_normalized, <<>>)))
        c  == Lower(Strip(OrText(entry.category, <<>>)))
    IN  IF cn # <<>> THEN cn
        ELSE IF Contains(<<"u", "t", "i", "l", "i", "t", "y">>, c) THEN <<"u", "t", "i", "l", "i", "t", "y">>
        ELSE IF Contains(<<"f", "u", "n", "d">>, c) \/ Contains(<<"t", "r", "a", "n", "s", "f", "e", "r">>, c)
             THEN <<"f", "u", "n", "d", "s", "_", "t", "r", "a", "n", "s", "f", "e", "r">>
        ELSE IF Contains(<<"g", "r", "o", "c">>, c) THEN <<"g", "r", "o", "c", "e", "r", "y">>
        ELSE IF Contains(<<"s", "h", "o", "p">>, c) THEN <<"s", "h", "o", "p", "p", "i", "n", "g">>
        ELSE IF Contains(<<"f", "u", "e", "l">>, c) \/ Contains(<<"p", "e", "t", "r", "o", "l">>, c) THEN <<"f", "u", "e", "l">>
        ELSE IF Contains(<<"f", "o", "o", "d">>, c) THEN <<"f", "o", "o", "d">>
        ELSE IF Contains(<<"r", "e", "n", "t">>, c) THEN <<"r", "e", "n", "t">>
        ELSE c

normalize_category(entry) ==
    LET cn == Lower(Strip(OrText(entry.category_normalized, <<>>)))
        c  == Lower(Strip(OrText(entry.category, <<>>)))
    IN  IF cn # <<>> THEN cn
        ELSE IF Contains(<<"u", "t", "i", "l", "i", "t", "y">>, c) THEN <<"u", "t", "i", "l", "i", "t", "y">>
        ELSE IF Contains(<<"f", "u", "n", "d">>, c) \/ Contains(<<"t", "r", "a", "n", "s", "f", "e", "r">>, c)
             THEN <<"f", "u", "n", "d", "s", "_", "t", "r", "a", "n", "s", "f", "e", "r">>
        ELSE IF Contains(<<"g", "r", "o", "c">>, c) THEN <<"g", "r", "o", "c", "e", "r", "y">>
        ELSE IF Contains(<<"s", "h", "o", "p">>, c) THEN <<"s", "h", "o", "p", "p", "i", "n", "g">>
        ELSE IF Contains(<<"f", "u", "e", "l">>, c) \/ Contains(<<"p", "e", "t", "r", "o", "l">>, c) THEN <<"f", "u", "e", "l">>
        ELSE IF Contains(<<"f", "o", "o", "d">>, c) THEN <<"f", "o", "o", "d">>
        ELSE IF Contains(<<"r", "e", "n", "t">>, c) THEN <<"r", "e", "n", "t">>
        ELSE OrText(c, <<"o", "t", "h", "e", "r">>)

\* classify_food_unnecessary, with the restaurant keywords tested first
classify_food_unnecessary_RestaurantFirst(entry) ==
    LET blob == text_blob(entry)
        amt  == to_float(entry.amount)
    IN  IF \E k \in RESTAURANT_KEYWORDS : Contains(k, blob)
        THEN [is_rest |-> TRUE, reason |-> "restaurant_keyword"]
        ELSE IF \E k \in HOME_FOOD_KEYWORDS : Contains(k, blob)
        THEN [is_rest |-> FALSE, reason |-> "home_food_keyword"]
        ELSE IF amt >= FOOD_EXPENSIVE_RS
        THEN [is_rest |-> TRUE, reason |-> "expensive_food_amount"]
        ELSE [is_rest |-> FALSE, reason |-> "unknown_food_type"]

classify_food_unnecessary(entry) ==
    LET blob == text_blob(entry)
        amt  == to_float(entry.amount)
    IN  IF \E k \in HOME_FOOD_KEYWORDS : Contains(k, blob)
        THEN [is_rest |-> FALSE, reason |-> "home_food_keyword"]
        ELSE IF \E k \in RESTAURANT_KEYWORDS : Contains(k, blob)
        THEN [is_rest |-> TRUE, reason |-> "restaurant_keyword"]
        ELSE IF amt >= FOOD_EXPENSIVE_RS
        THEN [is_rest |-> TRUE, reason |-> "expensive_food_amount"]
        ELSE [is_rest |-> FALSE, reason |-> "unknown_food_type"]

\* ------------------------------------------------------------ dictionaries

\* A dict is the sequence of its items [k, v] in insertion order.
HasKey(d, key) == \E j \in 1..Len(d) : d[j].k = key

\* d.get(key, default)
DictGet(d, key, default) ==
    IF HasKey(d, key) THEN d[CHOOSE j \in 1..Len(d) : d[j].k = key].v
    ELSE default

\* d[key] += amt on a defaultdict(float)
DictAdd(d, key, amt) ==
    IF HasKey(d, key)
    THEN [j \in 1..Len(d) |->
             IF d[j].k = key THEN [k |-> key, v |-> d[j].v + amt] ELSE d[j]]
    ELSE Append(d, [k |-> key, v |-> amt])

\* list(d.values())
Values(d) == [j \in 1..Len(d) |-> d[j].v]

\* ------------------------------------------------------------ the fold

VARIABLES
    entries,          \* compute_insights' argument: the entry list
    budget_row,       \* compute_insights' argument: the budget row
    period,           \* compute_insights' argument
    period_key,       \* compute_insights' argument
    pc,               \* "loop", "done"; "call" before a direct classifier call
    i,                \* index of the entry the loop takes next
    spent,
    totals_by_cat,
    daily_totals,
    discretionary,
    restaurant_food,
    catn,             \* the loop's local: the last normalized category
    result,           \* the returned value
    start,            \* split_range_by_month's / prorate's argument
    end,              \* split_range_by_month's / prorate's argument
    cur,              \* split_range_by_month's local: the month being added
    out,              \* split_range_by_month's local: the months so far
    months,           \* prorate's local: the months of the range
    total,            \* prorate's local: the budget summed so far
    monthly_budgets   \* the table monthly_budgets of one user

vars == <<entries, budget_row, period, period_key, pc, i, spent, totals_by_cat,
          daily_totals, discretionary, restaurant_food, catn, result,
          start, end, cur, out, months, total, monthly_budgets>>

\* the variables of the date-range functions
rangeVars == <<start, end, cur, out, months, total, monthly_budgets>>

\* no date-range function is running
RangeIdle ==
    /\ start = <<>>
    /\ end = <<>>
    /\ cur = <<>>
    /\ out = <<>>
    /\ months = <<>>
    /\ total = <<>>
    /\ monthly_budgets = <<>>

\* the accumulators as one value
Acc == [spent |-> spent, totals_by_cat |-> totals_by_cat,
        daily_totals |-> daily_totals, discretionary |-> discretionary,
        restaurant_food |-> restaurant_food, catn |-> catn]

\* the accumulators before the loop; catn is not bound yet
Acc0 == [spent |-> 0, totals_by_cat |-> <<>>, daily_totals |-> <<>>,
         discretionary |-> 0, restaurant_food |-> 0, catn |-> None]

\* the test `amt <= 0` written `amt < 0`
SkipAmount_Strict(amt) == amt < 0

SkipAmount(amt) == amt <= 0

\* totals_by_cat[catn] written with `=` in place of `+=`
AddSpent_Assign(acc, c, amt) ==
    [acc EXCEPT !.spent = @ + amt,
                !.totals_by_cat =
                    IF HasKey(@, c)
                    THEN [j \in 1..Len(@) |->
                             IF @[j].k = c THEN [k |-> c, v |-> amt] ELSE @[j]]
                    ELSE Append(@, [k |-> c, v |-> amt])]

AddSpent(acc, c, amt) ==
    [acc EXCEPT !.spent = @ + amt,
                !.totals_by_cat = DictAdd(@, c, amt)]

AddDaily(acc, e, amt) ==
    LET dt == parse_ts(e.created_at)
    IN  IF dt # NoDatetime
        THEN [acc EXCEPT !.daily_totals = DictAdd(@, day_key(dt), amt)]
        ELSE acc

\* the discretionary test nested under `if dt:`
AddDiscretionary_OnlyDated(acc, e, c, amt) ==
    IF parse_ts(e.created_at) # NoDatetime /\ c \in DISCRETIONARY_BASE
    THEN [acc EXCEPT !.discretionary = @ + amt]
    ELSE acc

AddDiscretionary(acc, e, c, amt) ==
    IF c \in DISCRETIONARY_BASE
    THEN [acc EXCEPT !.discretionary = @ + amt]
    ELSE acc

\* restaurant food left out of discretionary
AddFood_NotDiscretionary(acc, e, c, amt) ==
    IF c = <<"f", "o", "o", "d">> /\ classify_food_unnecessary(e).is_rest
    THEN [acc EXCEPT !.restaurant_food = @ + amt]
    ELSE acc

AddFood(acc, e, c, amt) ==
    IF c = <<"f", "o", "o", "d">> /\ classify_food_unnecessary(e).is_rest
    THEN [acc EXCEPT !.restaurant_food = @ + amt, !.discretionary = @ + amt]
    ELSE acc

\* one iteration of `for e in entries`
LoopBody(acc, e) ==
    LET amt == to_float(e.amount)
    IN  IF SkipAmount(amt) THEN acc
        ELSE LET c  == normalize_category(e)
                 a0 == [acc EXCEPT !.catn = c]
             IN  IF c \in EXCLUDE_CATS THEN a0
                 ELSE AddFood(
                          AddDiscretionary(
                              AddDaily(AddSpent(a0, c, amt), e, amt),
                              e, c, amt),
                          e, c, amt)

\* the loop over a whole list
RECURSIVE Fold(_, _)
Fold(acc, es) == IF es = <<>> THEN acc ELSE Fold(LoopBody(acc, es[1]), Tail(es))

\* ------------------------------------------------------------ the result

\* x inserted into t, sorted by v descending, before the first item with a
\* smaller or an equal v
InsertDesc_BeforeEqual(t, x) ==
    LET n == Cardinality({j \in 1..Len(t) : t[j].v > x.v})
    IN  SubSeq(t, 1, n) \o <<x>> \o SubSeq(t, n + 1, Len(t))

\* x inserted into t, sorted by v descending, after every item with v >= x.v
InsertDesc(t, x) ==
    LET n == Cardinality({j \in 1..Len(t) : t[j].v >= x.v})
    IN  SubSeq(t, 1, n) \o <<x>> \o SubSeq(t, n + 1, Len(t))

\* sorted(d.items(), key=lambda kv: kv[1], reverse=True): a stable sort, the
\* items with equal v keep the order they have in d
RECURSIVE SortedDesc(_)
SortedDesc(d) ==
    IF d = <<>> THEN <<>>
    ELSE InsertDesc(SortedDesc(SubSeq(d, 1, Len(d) - 1)), d[Len(d)])

\* top[:5] with the amounts rounded
Top5(d) ==
    LET top == SortedDesc(d)
        n   == IF Len(top) < 5 THEN Len(top) ELSE 5
    IN  [j \in 1..n |-> [category |-> top[j].k, amount |-> Round2(top[j].v)]]

\* budget_amount, from the budget row's budget_amount or amount
BudgetAmount(row) == to_float(OrNum(row.budget_amount, row.amount))

\* home_city, stripped, None when empty
HomeCity(row) ==
    LET s == Strip(OrText(row.home_city, <<>>))
    IN  IF s = <<>> THEN None ELSE s

\* OVER_BUDGET with `>=` in place of `>`
OverBudget_OrEqual(sp, b) == b > 0 /\ sp >= b

OverBudget(sp, b) == b > 0 /\ sp > b

\* rent / budget_amount >= 0.45
RentHigh(rent, b) == b > 0 /\ 20 * rent >= 9 * b

\* discretionary / spent >= 0.35 and discretionary >= 10000
DiscretionaryHigh(disc, sp) == sp > 0 /\ 20 * disc >= 7 * sp /\ disc >= Rs(10000)

\* restaurant_food / spent >= 0.15 and restaurant_food >= 8000
RestaurantFoodHigh(rf, sp) == sp > 0 /\ 20 * rf >= 3 * sp /\ rf >= Rs(8000)

\* the spike test with avg_day taken over the 30 calendar days of the period
SpikeDetected_CalendarAvg(daily) ==
    /\ daily # <<>>
    /\ LET vals    == Values(daily)
           max_day == MaxSeq(vals)
       IN  /\ SumSeq(vals) > 0
           /\ 2 * 30 * max_day >= 5 * SumSeq(vals)
           /\ max_day >= Rs(5000)

\* max_day >= avg_day * 2.5 and max_day >= 5000, avg_day over the day buckets
SpikeDetected(daily) ==
    /\ daily # <<>>
    /\ LET vals    == Values(daily)
           n       == IF Len(vals) > 1 THEN Len(vals) ELSE 1
           max_day == MaxSeq(vals)
       IN  /\ SumSeq(vals) > 0
           /\ 2 * n * max_day >= 5 * SumSeq(vals)
           /\ max_day >= Rs(5000)

AppendIf(cond, s, x) == IF cond THEN Append(s, x) ELSE s

\* the warnings with the spike test moved in front of the others
Warnings_SpikeFirst(acc, b) ==
    LET rent == DictGet(acc.totals_by_cat, <<"r", "e", "n", "t">>, 0)
        w1 == AppendIf(SpikeDetected(acc.daily_totals), <<>>, "SPIKE_DETECTED")
        w2 == AppendIf(OverBudget(acc.spent, b), w1, "OVER_BUDGET")
        w3 == AppendIf(RentHigh(rent, b), w2, "RENT_HIGH")
        w4 == AppendIf(DiscretionaryHigh(acc.discretionary, acc.spent), w3,
                       "DISCRETIONARY_HIGH")
    IN  AppendIf(RestaurantFoodHigh(acc.restaurant_food, acc.spent), w4,
                 "RESTAURANT_FOOD_HIGH")

Warnings(acc, b) ==
    LET rent == DictGet(acc.totals_by_cat, <<"r", "e", "n", "t">>, 0)
        w1 == AppendIf(OverBudget(acc.spent, b), <<>>, "OVER_BUDGET")
        w2 == AppendIf(RentHigh(rent, b), w1, "RENT_HIGH")
        w3 == AppendIf(DiscretionaryHigh(acc.discretionary, acc.spent), w2,
                       "DISCRETIONARY_HIGH")
        w4 == AppendIf(RestaurantFoodHigh(acc.restaurant_food, acc.spent), w3,
                       "RESTAURANT_FOOD_HIGH")
    IN  AppendIf(SpikeDetected(acc.daily_totals), w4, "SPIKE_DETECTED")

InSeq(x, s) == \E j \in 1..Len(s) : s[j] = x

\* An action is [msg, args]: the template and the numbers printed in it.
ActionOverBudget(over) ==
    [msg  |-> "You are over budget by Rs. {over:,.0f}. Cut discretionary categories first.",
     args |-> <<Format0(over)>>]

ActionText == [w \in {"RENT_HIGH", "DISCRETIONARY_HIGH", "RESTAURANT_FOOD_HIGH",
                      "SPIKE_DETECTED"} |->
    IF w = "RENT_HIGH"
    THEN "Rent is taking a very large share of your budget. Consider negotiating rent, sharing accommodation, or relocating."
    ELSE IF w = "DISCRETIONARY_HIGH"
    THEN "Discretionary spending is high. Set a weekly cap and review non-essential transactions."
    ELSE IF w = "RESTAURANT_FOOD_HIGH"
    THEN "Restaurant/delivery food is high. Reduce dine-out frequency or switch to home meals for savings."
    ELSE "A spending spike was detected on one day. Review that day's transactions and tag the cause (shopping, dining, bills, etc.)."]

ActionFor(w) == [msg |-> ActionText[w], args |-> <<>>]

Actions(warnings, sp, b) ==
    LET a1 == AppendIf(InSeq("OVER_BUDGET", warnings) /\ b > 0, <<>>,
                       ActionOverBudget(sp - b))
        a2 == AppendIf(InSeq("RENT_HIGH", warnings) /\ b > 0, a1,
                       ActionFor("RENT_HIGH"))
        a3 == AppendIf(InSeq("DISCRETIONARY_HIGH", warnings), a2,
                       ActionFor("DISCRETIONARY_HIGH"))
        a4 == AppendIf(InSeq("RESTAURANT_FOOD_HIGH", warnings), a3,
                       ActionFor("RESTAURANT_FOOD_HIGH"))
    IN  AppendIf(InSeq("SPIKE_DETECTED", warnings), a4,
                 ActionFor("SPIKE_DETECTED"))

\* lines 251-306: the ranking, the warnings, the actions and the returned dict
Result(acc, row, per, key) ==
    LET b        == BudgetAmount(row)
        warnings == Warnings(acc, b)
    IN  [period                |-> per,
         period_key            |-> key,
         home_city             |-> HomeCity(row),
         budget_amount         |-> Round2(b),
         spent_total           |-> Round2(acc.spent),
         remaining             |-> Round2(IF b > 0 THEN b - acc.spent ELSE 0),
         totals_by_category    |-> [j \in 1..Len(acc.totals_by_cat) |->
                                       [k |-> acc.totals_by_cat[j].k,
                                        v |-> Round2(acc.totals_by_cat[j].v)]],
         top_categories        |-> Top5(acc.totals_by_cat),
         discretionary_total   |-> Round2(acc.discretionary),
         restaurant_food_total |-> Round2(acc.restaurant_food),
         warnings              |-> warnings,
         actions               |-> Actions(warnings, acc.spent, b)]

\* compute_insights as a function of its arguments
compute_insights(es, row, per, key) == Result(Fold(Acc0, es), row, per, key)

\* ------------------------------------------------------------ actions

\* compute_insights is entered with the given arguments
Enter(es, row) ==
    /\ entries = es
    /\ budget_row = row
    /\ period = "month"
    /\ period_key = "2024-05"
    /\ pc = "loop"
    /\ i = 1
    /\ spent = Acc0.spent
    /\ totals_by_cat = Acc0.totals_by_cat
    /\ daily_totals = Acc0.daily_totals
    /\ discretionary = Acc0.discretionary
    /\ restaurant_food = Acc0.restaurant_food
    /\ catn = Acc0.catn
    /\ result = <<>>
    /\ RangeIdle

\* one iteration of the loop, on entries[i]
LoopIteration ==
    /\ pc = "loop"
    /\ i <= Len(entries)
    /\ LET a == LoopBody(Acc, entries[i])
       IN  /\ spent' = a.spent
           /\ totals_by_cat' = a.totals_by_cat
           /\ daily_totals' = a.daily_totals
           /\ discretionary' = a.discretionary
           /\ restaurant_food' = a.restaurant_food
           /\ catn' = a.catn
    /\ i' = i + 1
    /\ UNCHANGED <<entries, budget_row, period, period_key, pc, result>>
    /\ UNCHANGED rangeVars

\* the loop is over: the ranking, the warnings, the actions, the return
Finish ==
    /\ pc = "loop"
    /\ i > Len(entries)
    /\ result' = Result(Acc, budget_row, period, period_key)
    /\ pc' = "done"
    /\ UNCHANGED <<entries, budget_row, period, period_key, i, spent,
                   totals_by_cat, daily_totals, discretionary, restaurant_food,
                   catn>>
    /\ UNCHANGED rangeVars

Next == LoopIteration \/ Finish

\* a direct call of classify_food_unnecessary on entries[1]
ClassifyFood ==
    /\ pc = "call"
    /\ result' = classify_food_unnecessary(entries[1])
    /\ pc' = "done"
    /\ UNCHANGED <<entries, budget_row, period, period_key, i, spent,
                   totals_by_cat, daily_totals, discretionary, restaurant_food,
                   catn>>
    /\ UNCHANGED rangeVars

NextFood == ClassifyFood

\* ------------------------------------------------------------ inputs

MkEntry(category, category_normalized, title, amount, created_at) ==
    [title               |-> title,
     beneficiary_name    |-> None,
     raw_text            |-> None,
     category            |-> category,
     category_normalized |-> category_normalized,
     amount              |-> amount,
     created_at          |-> created_at]

At(day, hour, off) == [kind |-> "datetime", day |-> day, hour |-> hour, off |-> off]

IsoText(day, hour, off) == [kind |-> "iso", day |-> day, hour |-> hour, off |-> off]

BadText == [kind |-> "bad", day |-> 0, hour |-> 0, off |-> 0]

\* the longest entry list of Spec
MaxEntries == 3

\* the longest entry list of SpecTop
MaxTopEntries == 7

\* The entries of Spec: every bucket the fold treats differently, amounts on
\* and off the thresholds, a zero and a negative amount, two amounts with a
\* third decimal, and created_at of every kind.
SampleEntries == {
    MkEntry(<<"H", "o", "u", "s", "e", " ", "R", "e", "n", "t">>, None, None, <<Rs(450)>>, At(2, 10, 0)),
    MkEntry(<<"S", "h", "o", "p", "p", "i", "n", "g">>, None, <<"M", "a", "l", "l">>, <<Rs(550)>>, At(3, 10, 0)),
    MkEntry(<<"F", "o", "o", "d">>, None, <<"K", "F", "C">>, <<Rs(10000)>>, IsoText(1, 12, 0)),
    MkEntry(<<"F", "o", "o", "d">>, None, <<"M", "e", "t", "r", "o", " ", "g", "r", "o", "c", "e", "r", "y">>, <<Rs(5000) + 4>>, At(1, 9, 0)),
    MkEntry(<<"F", "o", "o", "d">>, None, <<"L", "u", "n", "c", "h">>, <<Rs(1800)>>, NoDatetime),
    MkEntry(<<"F", "u", "n", "d", " ", "T", "r", "a", "n", "s", "f", "e", "r">>, None, <<"t", "o", " ", "s", "a", "v", "i", "n", "g", "s">>, <<Rs(7000)>>, At(1, 9, 0)),
    MkEntry(<<>>, None, None, <<4>>, At(2, 2, 5)),
    MkEntry(<<"R", "e", "n", "t">>, None, None, <<0>>, At(1, 9, 0)),
    MkEntry(<<"S", "h", "o", "p", "p", "i", "n", "g">>, None, <<"r", "e", "f", "u", "n", "d">>, <<0 - Rs(500)>>, At(2, 9, 0)),
    MkEntry(None, <<" ", "E", "n", "t", "e", "r", "t", "a", "i", "n", "m", "e", "n", "t", " ">>, <<"c", "i", "n", "e", "m", "a">>, <<Rs(6000)>>, BadText)}

MkBudget(budget_amount, amount, home_city) ==
    [budget_amount |-> budget_amount, amount |-> amount, home_city |-> home_city]

SampleBudgets == {
    MkBudget(<<Rs(1000)>>, <<>>, <<" ", "L", "a", "h", "o", "r", "e", " ">>),
    MkBudget(<<0>>, <<Rs(20000)>>, None),
    MkBudget(<<>>, <<>>, <<>>)}

\* The entries of SpecTop: many categories and two amounts, so that totals tie
\* and more than five categories are counted.  The categories of a list are
\* numbered in the order they first appear; every other one costs double.
TopCategories == <<<<"r", "e", "n", "t">>, <<"g", "r", "o", "c", "e", "r", "y">>, <<"u", "t", "i", "l", "i", "t", "y">>, <<"f", "u", "e", "l">>, <<"h", "e", "a", "l", "t", "h">>,
                   <<"t", "r", "a", "n", "s", "p", "o", "r", "t">>, <<"e", "d", "u", "c", "a", "t", "i", "o", "n">>, <<"i", "n", "s", "u", "r", "a", "n", "c", "e">>>>

TopAmount(c) == IF c % 2 = 1 THEN Rs(100) ELSE Rs(200)

NumSeen(s) == Cardinality({s[j] : j \in 1..Len(s)})

RECURSIVE FirstSeen(_)
FirstSeen(n) ==
    IF n = 0 THEN {<<>>}
    ELSE UNION {{Append(s, c) : c \in 1..(NumSeen(s) + 1)} : s \in FirstSeen(n - 1)}

TopList(cs) ==
    [j \in 1..Len(cs) |->
        MkEntry(TopCategories[cs[j]], None, None, <<TopAmount(cs[j])>>, At(1, 9, 0))]

\* The entries of SpecNorm: raw categories that match no rule, one rule and
\* several rules, with and without a category_normalized.
NormCategories == {
    None, <<>>, <<" ", " ", " ">>, <<"G", "r", "o", "c", "e", "r", "y", " ", "S", "t", "o", "r", "e">>, <<"f", "u", "n", "d", " ", "t", "r", "a", "n", "s", "f", "e", "r">>, <<"F", "o", "o", "d", " ", "F", "u", "n", "d">>,
    <<"F", "a", "s", "t", " ", "f", "o", "o", "d">>, <<"U", "t", "i", "l", "i", "t", "y", " ", "s", "t", "o", "r", "e", " ", "f", "o", "o", "d">>, <<"P", "e", "t", "r", "o", "l">>, <<"F", "u", "e", "l", " ", "&", " ", "t", "r", "a", "n", "s", "p", "o", "r", "t">>,
    <<"H", "o", "u", "s", "e", " ", "R", "e", "n", "t">>, <<"S", "h", "o", "p", "p", "i", "n", "g">>, <<"P", "a", "r", "e", "n", "t", "s">>, <<"T", "r", "a", "n", "s", "f", "e", "r", " ", "t", "o", " ", "f", "o", "o", "d", " ", "s", "h", "o", "p">>,
    <<"H", "e", "a", "l", "t", "h">>, <<" ", "M", "i", "s", "c", " ">>, <<"T", "R", "A", "N", "S", "F", "E", "R">>, <<"R", "e", "f", "u", "n", "d">>, <<"G", "r", "o", "c", "e", "r", "i", "e", "s", "/", "s", "h", "o", "p">>,
    <<"R", "e", "n", "t", " ", "a", "n", "d", " ", "f", "o", "o", "d">>}

NormNormalized == {None, <<>>, <<" ", " ", " ">>, <<" ", "F", "o", "o", "d", " ">>, <<"f", "u", "n", "d", "s", "_", "t", "r", "a", "n", "s", "f", "e", "r">>, <<"R", "e", "n", "t">>}

NormEntries ==
    {MkEntry(c, cn, None, a, At(1, 9, 0)) :
        c \in NormCategories, cn \in NormNormalized, a \in {<<Rs(250)>>, <<0>>}}

\* The entries of SpecFood: blobs with a home keyword, a restaurant keyword,
\* both and none, in any of the text fields, with amounts around 1800.
FoodEntries ==
    {[title               |-> t,
      beneficiary_name    |-> bn,
      raw_text            |-> rt,
      category            |-> c,
      category_normalized |-> cn,
      amount              |-> a,
      created_at          |-> NoDatetime] :
        t  \in {None, <<>>, <<"M", "c", "D", "o", "n", "a", "l", "d", "'", "s">>, <<"M", "e", "t", "r", "o", " ", "g", "r", "o", "c", "e", "r", "y">>, <<"K", "F", "C", " ", "M", "a", "r", "t">>,
                <<"L", "u", "n", "c", "h">>, <<"S", "m", "a", "r", "t", " ", "C", "a", "f", "e">>},
        bn \in {None, <<"P", "i", "z", "z", "a", " ", "H", "u", "t">>, <<"A", "l", "-", "F", "a", "t", "a", "h", " ", "K", "i", "r", "a", "n", "a">>},
        rt \in {None, <<"p", "a", "i", "d", " ", "v", "i", "a", " ", "F", "o", "o", "d", "P", "a", "n", "d", "a", " ", "d", "e", "l", "i", "v", "e", "r", "y">>},
        c  \in {<<"F", "o", "o", "d">>, <<"f", "o", "o", "d", " ", "&", " ", "d", "i", "n", "i", "n", "g">>},
        cn \in {None, <<"f", "o", "o", "d">>},
        a  \in {<<>>, <<0>>, <<Rs(500)>>, <<Rs(1800) - 1>>, <<Rs(1800)>>,
                <<Rs(2000)>>, <<Rs(5000)>>}}

\* ------------------------------------------------------------ specifications

Init == \E n \in 0..MaxEntries : \E es \in [1..n -> SampleEntries] :
            \E row \in SampleBudgets : Enter(es, row)

Spec == Init /\ [][Next]_vars

InitTop == \E n \in 0..MaxTopEntries : \E cs \in FirstSeen(n) :
               Enter(TopList(cs), MkBudget(<<Rs(1000)>>, <<>>, None))

SpecTop == InitTop /\ [][Next]_vars

InitNorm == \E e \in NormEntries : Enter(<<e>>, MkBudget(<<>>, <<>>, None))

SpecNorm == InitNorm /\ [][Next]_vars

InitFood ==
    /\ \E e \in FoodEntries : entries = <<e>>
    /\ budget_row = MkBudget(<<>>, <<>>, None)
    /\ period = "month"
    /\ period_key = "2024-05"
    /\ pc = "call"
    /\ i = 1
    /\ spent = Acc0.spent
    /\ totals_by_cat = Acc0.totals_by_cat
    /\ daily_totals = Acc0.daily_totals
    /\ discretionary = Acc0.discretionary
    /\ restaurant_food = Acc0.restaurant_food
    /\ catn = Acc0.catn
    /\ result = <<>>
    /\ RangeIdle

SpecFood == InitFood /\ [][NextFood]_vars

\* ------------------------------------------------------------ dates

\* datetime.MAXYEAR: date(...) and datetime(...) raise ValueError on a year
\* outside 1..MAXYEAR
MAXYEAR == 9999

IsLeap(y) == y % 4 = 0 /\ (y % 100 # 0 \/ y % 400 = 0)

DaysInMonth(y, m) ==
    IF m = 2 THEN (IF IsLeap(y) THEN 29 ELSE 28)
    ELSE IF m \in {4, 6, 9, 11} THEN 30 ELSE 31

\* date(y, m, d) raises no ValueError
DateOk(y, m, d) ==
    y \in 1..MAXYEAR /\ m \in 1..12 /\ d \in 1..DaysInMonth(y, m)

date(y, m, d) == [year |-> y, month |-> m, day |-> d]

\* a < b on dates
Before(a, b) ==
    \/ a.year < b.year
    \/ a.year = b.year /\ a.month < b.month
    \/ a.year = b.year /\ a.month = b.month /\ a.day < b.day

\* max(a, b) and min(a, b) on dates
MaxDate(a, b) == IF Before(a, b) THEN b ELSE a

MinDate(a, b) == IF Before(b, a) THEN b ELSE a

RECURSIVE DaysBeforeMonth(_, _)
DaysBeforeMonth(y, m) ==
    IF m = 1 THEN 0 ELSE DaysBeforeMonth(y, m - 1) + DaysInMonth(y, m - 1)

\* date.toordinal(): the day number, 1 for 0001-01-01
toordinal(d) ==
    LET y == d.year - 1
    IN  y * 365 + y \div 4 - y \div 100 + y \div 400
          + DaysBeforeMonth(d.year, d.month) + d.day

\* (a - b).days
Days(a, b) == toordinal(a) - toordinal(b)

DigitChars == <<"0", "1", "2", "3", "4", "5", "6", "7", "8", "9">>

\* f"{n}" for n >= 0
RECURSIVE Str(_)
Str(n) ==
    IF n < 10 THEN <<DigitChars[n + 1]>>
    ELSE Str(n \div 10) \o <<DigitChars[(n % 10) + 1]>>

\* f"{n:02d}" for n >= 0
Format02(n) == IF n < 10 THEN <<"0">> \o Str(n) ELSE Str(n)

\* _month_str
month_str(d) == Str(d.year) \o <<"-">> \o Format02(d.month)

\* s.split(sep) for a one-character sep
RECURSIVE Split(_, _)
Split(s, sep) ==
    IF \A k \in 1..Len(s) : s[k] # sep THEN <<s>>
    ELSE LET at == CHOOSE k \in 1..Len(s) :
                       s[k] = sep /\ \A j \in 1..(k - 1) : s[j] # sep
         IN  <<SubSeq(s, 1, at - 1)>> \o Split(SubSeq(s, at + 1, Len(s)), sep)

IsDigits(s) ==
    s # <<>> /\ \A k \in 1..Len(s) : \E n \in 1..10 : DigitChars[n] = s[k]

\* the number a text of decimal digits denotes
RECURSIVE DigitsValue(_)
DigitsValue(s) ==
    IF s = <<>> THEN 0
    ELSE DigitsValue(SubSeq(s, 1, Len(s) - 1)) * 10
           + (CHOOSE n \in 0..9 : DigitChars[n + 1] = s[Len(s)])

\* int(s) on a text: <<n>>, or <<>> when int(s) raises ValueError.  Surrounding
\* whitespace is accepted; signs and underscores, which no text of this model
\* holds, are taken as not a number.
int(s) == IF IsDigits(Strip(s)) THEN <<DigitsValue(Strip(s))>> ELSE <<>>

\* parse_yyyy_mm after `year = int(y)` and `mon = int(m)`, each <<n>> or <<>>
YearMonth(year, mon) ==
    IF year = <<>> \/ mon = <<>> THEN [raised |-> TRUE]
    ELSE IF mon[1] < 1 \/ mon[1] > 12 THEN [raised |-> TRUE]
    ELSE [raised |-> FALSE, year |-> year[1], mon |-> mon[1]]

\* parse_yyyy_mm after the split: `y, m = ...` raises unless there are two parts
Unpack(parts) ==
    IF Len(parts) # 2 THEN [raised |-> TRUE]
    ELSE YearMonth(int(parts[1]), int(parts[2]))

\* parse_yyyy_mm: [raised, year, mon]; raised when the text does not split in
\* two numbers or the month is out of range
parse_yyyy_mm(s) == Unpack(Split(Strip(OrText(s, <<>>)), "-"))

\* month_bounds_utc after `y, m = parse_yyyy_mm(month)`
BoundsOf(p) ==
    IF p.raised THEN [raised |-> TRUE]
    ELSE IF ~DateOk(p.year, p.mon, 1) THEN [raised |-> TRUE]
    ELSE IF p.mon = 12
    THEN IF DateOk(p.year + 1, 1, 1)
         THEN [raised |-> FALSE, start |-> date(p.year, p.mon, 1),
               end |-> date(p.year + 1, 1, 1)]
         ELSE [raised |-> TRUE]
    ELSE [raised |-> FALSE, start |-> date(p.year, p.mon, 1),
          end |-> date(p.year, p.mon + 1, 1)]

\* month_bounds_utc: [raised, start, end], the dates of the two midnights;
\* raised when parse_yyyy_mm or a datetime(...) raises
month_bounds_utc(month) == BoundsOf(parse_yyyy_mm(month))

\* ------------------------------------------------------------ split_range_by_month

\* the body of `while cur < end`: [raised, cur, out]; raised when the
\* date(...) of the next month raises
WhileBody(c, o) ==
    LET o2 == Append(o, month_str(c))
    IN  IF c.month = 12
        THEN IF DateOk(c.year + 1, 1, 1)
             THEN [raised |-> FALSE, cur |-> date(c.year + 1, 1, 1), out |-> o2]
             ELSE [raised |-> TRUE, cur |-> c, out |-> o2]
        ELSE [raised |-> FALSE, cur |-> date(c.year, c.month + 1, 1), out |-> o2]

\* the de-dupe loop: the items of s not in seen, each once, in order
RECURSIVE Dedupe(_, _)
Dedupe(s, seen) ==
    IF s = <<>> THEN <<>>
    ELSE IF s[1] \in seen THEN Dedupe(Tail(s), seen)
    ELSE <<s[1]>> \o Dedupe(Tail(s), seen \cup {s[1]})

\* what follows the while loop: the month of start is put first when it is
\* missing, then duplicates are dropped
AfterWhile(o, st) ==
    LET sm == month_str(st)
    IN  Dedupe(IF InSeq(sm, o) THEN o ELSE <<sm>> \o o, {})

\* the while loop from (c, o): [raised, value]
RECURSIVE While(_, _, _)
While(c, o, en) ==
    IF Before(c, en)
    THEN LET b == WhileBody(c, o)
         IN  IF b.raised THEN [raised |-> TRUE] ELSE While(b.cur, b.out, en)
    ELSE [raised |-> FALSE, value |-> o]

\* split_range_by_month as a function of its arguments: [raised, value]
split_range_by_month(st, en) ==
    IF ~Before(st, en) THEN [raised |-> FALSE, value |-> <<>>]
    ELSE LET w == While(date(st.year, st.month, 1), <<>>, en)
         IN  IF w.raised THEN [raised |-> TRUE]
             ELSE [raised |-> FALSE, value |-> AfterWhile(w.value, st)]

\* the variables split_range_by_month does not use
splitIdle == <<entries, budget_row, period, period_key, i, spent, totals_by_cat,
               daily_totals, discretionary, restaurant_food, catn, months,
               total, monthly_budgets>>

\* split_range_by_month is called with the given arguments
EnterSplit(st, en) ==
    /\ entries = <<>>
    /\ budget_row = <<>>
    /\ period = <<>>
    /\ period_key = <<>>
    /\ i = 1
    /\ spent = Acc0.spent
    /\ totals_by_cat = Acc0.totals_by_cat
    /\ daily_totals = Acc0.daily_totals
    /\ discretionary = Acc0.discretionary
    /\ restaurant_food = Acc0.restaurant_food
    /\ catn = Acc0.catn
    /\ months = <<>>
    /\ total = <<>>
    /\ monthly_budgets = <<>>
    /\ pc = "split"
    /\ start = st
    /\ end = en
    /\ cur = <<>>
    /\ out = <<>>
    /\ result = <<>>

\* `if end <= start: return []`, else the first month and the empty list
SplitBegin ==
    /\ pc = "split"
    /\ IF ~Before(start, end)
       THEN /\ result' = <<>>
            /\ pc' = "done"
            /\ UNCHANGED <<cur, out>>
       ELSE /\ cur' = date(start.year, start.month, 1)
            /\ out' = <<>>
            /\ pc' = "while"
            /\ UNCHANGED result
    /\ UNCHANGED <<start, end>>
    /\ UNCHANGED splitIdle

\* one iteration of `while cur < end`
SplitWhile ==
    /\ pc = "while"
    /\ Before(cur, end)
    /\ LET b == WhileBody(cur, out)
       IN  /\ cur' = b.cur
           /\ out' = b.out
           /\ pc' = IF b.raised THEN "raised" ELSE "while"
    /\ UNCHANGED <<start, end, result>>
    /\ UNCHANGED splitIdle

\* the loop is over: the month of start, the de-dupe, the return
SplitReturn ==
    /\ pc = "while"
    /\ ~Before(cur, end)
    /\ result' = AfterWhile(out, start)
    /\ pc' = "done"
    /\ UNCHANGED <<start, end, cur, out>>
    /\ UNCHANGED splitIdle

NextSplit == SplitBegin \/ SplitWhile \/ SplitReturn

\* ------------------------------------------------------------ prorate_monthly_budget_for_range

RECURSIVE GCD(_, _)
GCD(a, b) == IF b = 0 THEN a ELSE GCD(b, a % b)

\* The running total is the exact number whole + num / den thousandths, with
\* 0 <= num < den in lowest terms: monthly_budget / days_in_month is no
\* whole number of thousandths.  The float sum differs from it by far less
\* than the cent that round(total, 2) keeps.
Exact(whole, num, den) ==
    LET g == GCD(num % den, den)
    IN  [whole |-> whole + num \div den, num |-> (num % den) \div g,
         den |-> den \div g]

\* total + p / d
AddFraction(t, p, d) ==
    LET den == (t.den \div GCD(t.den, d)) * d
    IN  Exact(t.whole + p \div d,
              t.num * (den \div t.den) + (p % d) * (den \div d), den)

\* round(total, 2) of an exact total
Round2Exact(t) ==
    IF t.num = 0 THEN Round2(t.whole)
    ELSE IF t.whole % 10 < 5 THEN t.whole - (t.whole % 10)
    ELSE t.whole - (t.whole % 10) + 10

\* fetch_month_budget: <<row>> for the row of the month, <<>> for None
fetch_month_budget(db, m) == IF HasKey(db, m) THEN <<DictGet(db, m, <<>>)>> ELSE <<>>

\* the for body from the overlap tests on
AddOverlap(t, monthly_budget, st, en, ms, me, overlap_start, overlap_end) ==
    IF ~Before(overlap_start, overlap_end) THEN [raised |-> FALSE, total |-> t]
    ELSE IF Days(me, ms) <= 0 \/ Days(overlap_end, overlap_start) <= 0
    THEN [raised |-> FALSE, total |-> t]
    ELSE [raised |-> FALSE,
          total |-> AddFraction(t, monthly_budget * Days(overlap_end, overlap_start),
                                Days(me, ms))]

\* the for body after `ms_dt, me_dt = month_bounds_utc(m)`
AddMonth(t, monthly_budget, st, en, mb) ==
    IF mb.raised THEN [raised |-> TRUE]
    ELSE AddOverlap(t, monthly_budget, st, en, mb.start, mb.end,
                    MaxDate(st, mb.start), MinDate(en, mb.end))

\* the for body after `b = fetch_month_budget(user_id, m)`, b <<row>> or <<>>
AddBudget(t, m, st, en, b) ==
    IF b = <<>> THEN [raised |-> FALSE, total |-> t]
    ELSE IF to_float(OrNum(b[1].budget_amount, <<0>>)) <= 0
    THEN [raised |-> FALSE, total |-> t]
    ELSE AddMonth(t, to_float(OrNum(b[1].budget_amount, <<0>>)), st, en,
                  month_bounds_utc(m))

\* the body of `for m in months`: [raised, total]; raised when
\* month_bounds_utc raises
ForBody(t, m, st, en, db) == AddBudget(t, m, st, en, fetch_month_budget(db, m))

\* the for loop from total t over the months ms: [raised, total]
RECURSIVE For(_, _, _, _, _)
For(t, ms, st, en, db) ==
    IF ms = <<>> THEN [raised |-> FALSE, total |-> t]
    ELSE LET b == ForBody(t, ms[1], st, en, db)
         IN  IF b.raised THEN [raised |-> TRUE]
             ELSE For(b.total, Tail(ms), st, en, db)

\* prorate_monthly_budget_for_range as a function of the table and its
\* arguments: [raised, value]
prorate_monthly_budget_for_range(db, st, en) ==
    IF ~Before(st, en) THEN [raised |-> FALSE, value |-> 0]
    ELSE LET ms == split_range_by_month(st, en)
         IN  IF ms.raised THEN [raised |-> TRUE]
             ELSE LET f == For(Exact(0, 0, 1), ms.value, st, en, db)
                  IN  IF f.raised THEN [raised |-> TRUE]
                      ELSE [raised |-> FALSE, value |-> Round2Exact(f.total)]

\* the variables prorate_monthly_budget_for_range does not use
prorateIdle == <<entries, budget_row, period, period_key, spent, totals_by_cat,
                 daily_totals, discretionary, restaurant_food, catn, cur, out>>

\* prorate_monthly_budget_for_range is called with the given arguments on
\* the given table
EnterProrate(db, st, en) ==
    /\ entries = <<>>
    /\ budget_row = <<>>
    /\ period = <<>>
    /\ period_key = <<>>
    /\ spent = Acc0.spent
    /\ totals_by_cat = Acc0.totals_by_cat
    /\ daily_totals = Acc0.daily_totals
    /\ discretionary = Acc0.discretionary
    /\ restaurant_food = Acc0.restaurant_food
    /\ catn = Acc0.catn
    /\ cur = <<>>
    /\ out = <<>>
    /\ pc = "prorate"
    /\ monthly_budgets = db
    /\ start = st
    /\ end = en
    /\ months = <<>>
    /\ total = <<>>
    /\ i = 1
    /\ result = <<>>

\* `if end <= start: return 0.0`, else total = 0.0 and the months of the range
ProrateBegin ==
    /\ pc = "prorate"
    /\ IF ~Before(start, end)
       THEN /\ result' = 0
            /\ pc' = "done"
            /\ UNCHANGED <<months, total>>
       ELSE LET ms == split_range_by_month(start, end)
            IN  /\ total' = Exact(0, 0, 1)
                /\ months' = IF ms.raised THEN months ELSE ms.value
                /\ pc' = IF ms.raised THEN "raised" ELSE "for"
                /\ UNCHANGED result
    /\ UNCHANGED <<start, end, monthly_budgets, i>>
    /\ UNCHANGED prorateIdle

\* one iteration of `for m in months`, on months[i]
ProrateMonth ==
    /\ pc = "for"
    /\ i <= Len(months)
    /\ LET b == ForBody(total, months[i], start, end, monthly_budgets)
       IN  /\ total' = IF b.raised THEN total ELSE b.total
           /\ pc' = IF b.raised THEN "raised" ELSE "for"
    /\ i' = i + 1
    /\ UNCHANGED <<start, end, monthly_budgets, months, result>>
    /\ UNCHANGED prorateIdle

\* the loop is over: `return round(total, 2)`
ProrateReturn ==
    /\ pc = "for"
    /\ i > Len(months)
    /\ result' = Round2Exact(total)
    /\ pc' = "done"
    /\ UNCHANGED <<start, end, monthly_budgets, months, total, i>>
    /\ UNCHANGED prorateIdle

NextProrate == ProrateBegin \/ ProrateMonth \/ ProrateReturn

\* ------------------------------------------------------------ date inputs

\* the number of months a range of SpecSplit and SpecProrate spans at most
MaxMonths == 4

\* the months the dates are drawn from: a year end, a leap February, and the
\* last two months a date can hold
SampleMonths == {<<2023, 12>>, <<2024, 1>>, <<2024, 2>>, <<2024, 3>>,
                 <<MAXYEAR, 11>>, <<MAXYEAR, 12>>}

\* the first, the 15th and the last day of each month
SampleDates ==
    UNION {{date(ym[1], ym[2], 1), date(ym[1], ym[2], 15),
            date(ym[1], ym[2], DaysInMonth(ym[1], ym[2]))} : ym \in SampleMonths}

\* the months from the month of a to the month of b, both counted
MonthsSpanned(a, b) == (b.year * 12 + b.month) - (a.year * 12 + a.month) + 1

\* the (start, end) pairs: every order, and at most MaxMonths months forward
InRange(st, en) == MonthsSpanned(st, en) <= MaxMonths

\* a row of monthly_budgets, as fetch_month_budget selects it
MkRow(budget_amount) == [budget_amount |-> budget_amount, home_city |-> None]

\* Tables of monthly_budgets: months with no row, with a NULL, a zero and a
\* negative amount, and amounts that do not divide by the days of the month.
SampleTables == {
    <<[k |-> month_str(date(2023, 12, 1)), v |-> MkRow(<<Rs(3100)>>)],
      [k |-> month_str(date(2024, 2, 1)), v |-> MkRow(<<Rs(1000)>>)],
      [k |-> month_str(date(2024, 3, 1)), v |-> MkRow(<<0>>)],
      [k |-> month_str(date(MAXYEAR, 11, 1)), v |-> MkRow(<<Rs(3000)>>)],
      [k |-> month_str(date(MAXYEAR, 12, 1)), v |-> MkRow(<<Rs(3100)>>)]>>,
    <<[k |-> month_str(date(2023, 12, 1)), v |-> MkRow(<<Rs(12345) + 670>>)],
      [k |-> month_str(date(2024, 1, 1)), v |-> MkRow(<<Rs(50000)>>)],
      [k |-> month_str(date(2024, 2, 1)), v |-> MkRow(<<Rs(20000)>>)],
      [k |-> month_str(date(2024, 3, 1)), v |-> MkRow(<<Rs(20000)>>)],
      [k |-> month_str(date(MAXYEAR, 11, 1)), v |-> MkRow(<<>>)],
      [k |-> month_str(date(MAXYEAR, 12, 1)), v |-> MkRow(<<0 - Rs(500)>>)]>>}

InitSplit ==
    \E st \in SampleDates : \E en \in SampleDates :
        InRange(st, en) /\ EnterSplit(st, en)

SpecSplit == InitSplit /\ [][NextSplit]_vars

InitProrate ==
    \E db \in SampleTables : \E st \in SampleDates : \E en \in SampleDates :
        InRange(st, en) /\ EnterProrate(db, st, en)

SpecProrate == InitProrate /\ [][NextProrate]_vars

\* ------------------------------------------------------------ properties

\* the entry is skipped by the loop: amount <= 0, or an excluded category
Skipped(e) ==
    to_float(e.amount) <= 0 \/ normalize_category(e) = <<"f", "u", "n", "d", "s", "_", "t", "r", "a", "n", "s", "f", "e", "r">>

Counted(e) == ~Skipped(e)

\* the amounts of the entries of es
Amounts(es) == [j \in 1..Len(es) |-> to_float(es[j].amount)]

\* the entries of es whose normalized category is c
OfCategory(es, c) == LET Is(e) == normalize_category(e) = c IN SelectSeq(es, Is)

InExclusionSet(e) == normalize_category(e) = <<"f", "u", "n", "d", "s", "_", "t", "r", "a", "n", "s", "f", "e", "r">>

HasCentAmount(e) == to_float(e.amount) % 10 = 0

\* C1 as stated: the values of totals_by_category sum to spent_total minus the
\* amounts of the entries whose normalized category is funds_transfer.
C1_TotalsSumToSpentMinusExcluded ==
    pc = "done" =>
        SumSeq(Values(result.totals_by_category))
            = result.spent_total
                - SumSeq(Amounts(OfCategory(entries, <<"f", "u", "n", "d", "s", "_", "t", "r", "a", "n", "s", "f", "e", "r">>)))

\* C1 amended: after every prefix the per-category accumulators sum to spent,
\* and no excluded category is among them: the exclusion set's amounts are in
\* neither.  The result holds their 2-decimal roundings, so its
\* totals_by_category values sum to spent_total when the amounts have at most
\* two decimals.
C1_TotalsSumToSpent ==
    /\ SumSeq(Values(totals_by_cat)) = spent
    /\ \A j \in 1..Len(totals_by_cat) : totals_by_cat[j].k # <<"f", "u", "n", "d", "s", "_", "t", "r", "a", "n", "s", "f", "e", "r">>
    /\ pc = "done" =>
        /\ result.spent_total = Round2(spent)
        /\ Len(result.totals_by_category) = Len(totals_by_cat)
        /\ \A j \in 1..Len(totals_by_cat) :
              /\ result.totals_by_category[j].k = totals_by_cat[j].k
              /\ result.totals_by_category[j].v = Round2(totals_by_cat[j].v)
        /\ (\A j \in 1..Len(entries) : HasCentAmount(entries[j])) =>
              SumSeq(Values(result.totals_by_category)) = result.spent_total

\* an excluded entry with a positive amount was skipped, two entries of one
\* category and an entry of another were counted
C1_Witness ==
    /\ pc = "done"
    /\ \E j \in 1..Len(entries) :
          InExclusionSet(entries[j]) /\ to_float(entries[j].amount) > 0
    /\ Len(totals_by_cat) = 1
    /\ \E j, k \in 1..Len(entries) :
          j # k /\ Counted(entries[j]) /\ Counted(entries[k])
    /\ result.spent_total > 0

\* C2: after every prefix discretionary <= spent, restaurant_food <= spent and
\* restaurant_food <= discretionary; every step adds to discretionary at least
\* what it adds to restaurant_food; the result's discretionary_total and
\* restaurant_food_total are <= spent_total.
C2_DiscretionaryWithinSpent ==
    /\ [](/\ 0 <= restaurant_food
          /\ restaurant_food <= discretionary
          /\ discretionary <= spent
          /\ pc = "done" =>
                /\ result.restaurant_food_total <= result.discretionary_total
                /\ result.discretionary_total <= result.spent_total)
    /\ [][/\ restaurant_food' >= restaurant_food
          /\ restaurant_food' - restaurant_food <= discretionary' - discretionary
          /\ discretionary' - discretionary <= spent' - spent]_vars

\* restaurant food and another discretionary amount were both counted
C2_Witness ==
    /\ pc = "done"
    /\ result.restaurant_food_total > 0
    /\ result.discretionary_total > result.restaurant_food_total
    /\ result.spent_total > result.discretionary_total

\* the entries of es that the loop counts
RECURSIVE Kept(_)
Kept(es) ==
    IF es = <<>> THEN <<>>
    ELSE IF Skipped(es[1]) THEN Kept(Tail(es))
    ELSE <<es[1]>> \o Kept(Tail(es))

\* C3: an iteration on an entry with amount <= 0 or of category funds_transfer
\* leaves spent, totals_by_cat, daily_totals, discretionary and restaurant_food
\* unchanged, and the result is the result on the list without such entries.
C3_SkippedEntriesLeaveNoTrace ==
    /\ [][(pc = "loop" /\ i <= Len(entries) /\ Skipped(entries[i])) =>
            UNCHANGED <<spent, totals_by_cat, daily_totals, discretionary,
                        restaurant_food>>]_vars
    /\ [](pc = "done" =>
            result = compute_insights(Kept(entries), budget_row, period, period_key))

\* a zero amount, an excluded entry and a counted entry were all folded
C3_Witness ==
    /\ pc = "done"
    /\ \E j \in 1..Len(entries) : to_float(entries[j].amount) <= 0
    /\ \E j \in 1..Len(entries) :
          InExclusionSet(entries[j]) /\ to_float(entries[j].amount) > 0
    /\ \E j \in 1..Len(entries) : Counted(entries[j])
    /\ result.warnings # <<>>

Unparseable == {BadText, NoDatetime}

\* s without the items equal to x
Without(s, x) == LET Keep(y) == y # x IN SelectSeq(s, Keep)

\* the result with the spike warning and its action taken out
SpikeAside(r) ==
    [r EXCEPT !.warnings = Without(@, "SPIKE_DETECTED"),
              !.actions  = Without(@, ActionFor("SPIKE_DETECTED"))]

\* C4: an iteration on an entry whose created_at does not parse leaves
\* daily_totals unchanged, and replacing the created_at of a counted entry by
\* a missing or unparseable one changes nothing of the result except the
\* SPIKE_DETECTED warning and its action.
C4_UnparseableTimestampOnlyLeavesDaily ==
    /\ [][(pc = "loop" /\ i <= Len(entries)
                /\ entries[i].created_at \in Unparseable) =>
            daily_totals' = daily_totals]_vars
    /\ [](pc = "done" =>
            \A j \in 1..Len(entries) : \A ts \in Unparseable :
                Counted(entries[j]) =>
                    SpikeAside(compute_insights(
                        [entries EXCEPT ![j].created_at = ts],
                        budget_row, period, period_key)) = SpikeAside(result))

\* a spike is reported, and is not when a counted entry loses its created_at
C4_Witness ==
    /\ pc = "done"
    /\ result.discretionary_total > 0
    /\ InSeq("SPIKE_DETECTED", result.warnings)
    /\ \E j \in 1..Len(entries) :
          /\ Counted(entries[j])
          /\ ~InSeq("SPIKE_DETECTED",
                    compute_insights([entries EXCEPT ![j].created_at = BadText],
                                     budget_row, period, period_key).warnings)

WarningOrder == <<"OVER_BUDGET", "RENT_HIGH", "DISCRETIONARY_HIGH",
                  "RESTAURANT_FOOD_HIGH", "SPIKE_DETECTED">>

\* the items of WarningOrder that are in s, in the order of WarningOrder
InOrder(s) == LET Has(w) == InSeq(w, s) IN SelectSeq(WarningOrder, Has)

\* C5: warnings is a duplicate-free subsequence of the fixed order, each
\* warning is there exactly when its own threshold test holds, and actions
\* holds one string per warning, in the same order.
C5_WarningsAndActionsInFixedOrder ==
    pc = "done" =>
        LET b    == BudgetAmount(budget_row)
            rent == DictGet(totals_by_cat, <<"r", "e", "n", "t">>, 0)
            w    == result.warnings
        IN  /\ w = InOrder(w)
            /\ InSeq("OVER_BUDGET", w) <=> OverBudget(spent, b)
            /\ InSeq("RENT_HIGH", w) <=> RentHigh(rent, b)
            /\ InSeq("DISCRETIONARY_HIGH", w)
                   <=> DiscretionaryHigh(discretionary, spent)
            /\ InSeq("RESTAURANT_FOOD_HIGH", w)
                   <=> RestaurantFoodHigh(restaurant_food, spent)
            /\ InSeq("SPIKE_DETECTED", w) <=> SpikeDetected(daily_totals)
            /\ Len(result.actions) = Len(w)
            /\ \A j \in 1..Len(w) :
                  result.actions[j] =
                      IF w[j] = "OVER_BUDGET" THEN ActionOverBudget(spent - b)
                      ELSE ActionFor(w[j])

\* all five warnings at once
C5_Witness ==
    /\ pc = "done"
    /\ result.warnings = WarningOrder
    /\ Len(result.actions) = 5

\* C6: OVER_BUDGET is reported iff budget_amount > 0 and spent > budget_amount,
\* RENT_HIGH iff budget_amount > 0 and rent / budget_amount >= 0.45; without a
\* positive budget neither is reported and remaining is 0.
C6_BudgetWarningsOnThresholds ==
    pc = "done" =>
        LET b    == BudgetAmount(budget_row)
            rent == SumSeq(Amounts(OfCategory(Kept(entries), <<"r", "e", "n", "t">>)))
            sp   == SumSeq(Amounts(Kept(entries)))
        IN  /\ InSeq("OVER_BUDGET", result.warnings) <=> (b > 0 /\ sp > b)
            /\ InSeq("RENT_HIGH", result.warnings) <=> (b > 0 /\ 100 * rent >= 45 * b)
            /\ b <= 0 =>
                  /\ ~InSeq("OVER_BUDGET", result.warnings)
                  /\ ~InSeq("RENT_HIGH", result.warnings)
                  /\ result.remaining = 0
            /\ b > 0 => result.remaining = Round2(b - sp)

\* spent equals the budget and rent is exactly 0.45 of it
C6_Witness ==
    /\ pc = "done"
    /\ BudgetAmount(budget_row) > 0
    /\ spent = BudgetAmount(budget_row)
    /\ 100 * DictGet(totals_by_cat, <<"r", "e", "n", "t">>, 0) = 45 * BudgetAmount(budget_row)
    /\ result.warnings = <<"RENT_HIGH">>

\* the index of the first counted entry of category c
FirstIndex(c) ==
    CHOOSE j \in 1..Len(entries) :
        /\ Counted(entries[j]) /\ normalize_category(entries[j]) = c
        /\ \A k \in 1..(j - 1) :
              ~(Counted(entries[k]) /\ normalize_category(entries[k]) = c)

\* the total of category c over the counted entries
TotalOf(c) == SumSeq(Amounts(OfCategory(Kept(entries), c)))

CountedCategories ==
    {normalize_category(entries[j]) : j \in {k \in 1..Len(entries) : Counted(entries[k])}}

\* C7: top_categories holds min(5, number of counted categories) categories,
\* each once with its rounded total, the amounts non-increasing, no category
\* left out above the smallest listed, and categories of equal total in the
\* order of their first entries.
C7_TopCategoriesRanked ==
    pc = "done" =>
        LET top    == result.top_categories
            n      == Cardinality(CountedCategories)
            listed == {top[j].category : j \in 1..Len(top)}
        IN  /\ Len(top) = IF n < 5 THEN n ELSE 5
            /\ listed \subseteq CountedCategories
            /\ \A j, k \in 1..Len(top) : j # k => top[j].category # top[k].category
            /\ \A j \in 1..Len(top) : top[j].amount = Round2(TotalOf(top[j].category))
            /\ \A j, k \in 1..Len(top) : j < k =>
                  /\ top[j].amount >= top[k].amount
                  /\ TotalOf(top[j].category) = TotalOf(top[k].category) =>
                        FirstIndex(top[j].category) < FirstIndex(top[k].category)
            /\ \A c \in CountedCategories \ listed : \A j \in 1..Len(top) :
                  /\ Round2(TotalOf(c)) <= top[j].amount
                  /\ TotalOf(c) = TotalOf(top[j].category) =>
                        FirstIndex(top[j].category) < FirstIndex(c)

\* six categories counted, the one left out tied with the fifth listed, and
\* a later category ranked above an earlier one
C7_Witness ==
    /\ pc = "done"
    /\ Cardinality(CountedCategories) >= 6
    /\ Len(result.top_categories) = 5
    /\ \E c \in CountedCategories :
          /\ \A j \in 1..5 : result.top_categories[j].category # c
          /\ Round2(TotalOf(c)) = result.top_categories[5].amount
    /\ result.top_categories[1].amount > result.top_categories[2].amount
    /\ FirstIndex(result.top_categories[1].category)
          > FirstIndex(result.top_categories[2].category)
    /\ result.top_categories[2].amount = result.top_categories[3].amount

\* the rule table of normalize_category as the specification gives it: the
\* keywords of each rule and its bucket, in priority order
RuleTable == <<
    [keywords |-> {<<"u", "t", "i", "l", "i", "t", "y">>},            bucket |-> <<"u", "t", "i", "l", "i", "t", "y">>],
    [keywords |-> {<<"f", "u", "n", "d">>, <<"t", "r", "a", "n", "s", "f", "e", "r">>}, bucket |-> <<"f", "u", "n", "d", "s", "_", "t", "r", "a", "n", "s", "f", "e", "r">>],
    [keywords |-> {<<"g", "r", "o", "c">>},               bucket |-> <<"g", "r", "o", "c", "e", "r", "y">>],
    [keywords |-> {<<"s", "h", "o", "p">>},               bucket |-> <<"s", "h", "o", "p", "p", "i", "n", "g">>],
    [keywords |-> {<<"f", "u", "e", "l">>, <<"p", "e", "t", "r", "o", "l">>},   bucket |-> <<"f", "u", "e", "l">>],
    [keywords |-> {<<"f", "o", "o", "d">>},               bucket |-> <<"f", "o", "o", "d">>],
    [keywords |-> {<<"r", "e", "n", "t">>},               bucket |-> <<"r", "e", "n", "t">>]>>

RuleMatches(r, c) == \E kw \in RuleTable[r].keywords : Contains(kw, c)

\* the entry the loop has normalized: the single entry of the list, counted
\* or excluded
Normalized == i > 1 /\ Len(entries) = 1 /\ to_float(entries[1].amount) > 0

\* the entry's category_normalized and category, trimmed and lower-cased
GivenNormalized == Lower(Strip(OrText(entries[1].category_normalized, <<>>)))

GivenCategory == Lower(Strip(OrText(entries[1].category, <<>>)))

\* C8: a non-empty category_normalized is the result; otherwise the first
\* rule of the table that matches the raw category decides, so that a raw
\* category with both "fund" and "food" (and no "utility") is funds_transfer,
\* and compute_insights leaves such an entry out of every total.
C8_FirstMatchingRuleWins ==
    Normalized =>
        /\ GivenNormalized # <<>> => catn = GivenNormalized
        /\ GivenNormalized = <<>> =>
              \A r \in 1..Len(RuleTable) :
                  (RuleMatches(r, GivenCategory)
                      /\ \A q \in 1..(r - 1) : ~RuleMatches(q, GivenCategory))
                  => catn = RuleTable[r].bucket
        /\ (/\ GivenNormalized = <<>>
            /\ Contains(<<"f", "u", "n", "d">>, GivenCategory)
            /\ Contains(<<"f", "o", "o", "d">>, GivenCategory)
            /\ ~Contains(<<"u", "t", "i", "l", "i", "t", "y">>, GivenCategory)) =>
              /\ catn = <<"f", "u", "n", "d", "s", "_", "t", "r", "a", "n", "s", "f", "e", "r">>
              /\ spent = 0 /\ totals_by_cat = <<>> /\ daily_totals = <<>>
              /\ pc = "done" =>
                    result.spent_total = 0 /\ result.totals_by_category = <<>>

\* a raw category with "fund" and "food" was normalized and the call returned
C8_Witness ==
    /\ Normalized
    /\ pc = "done"
    /\ GivenNormalized = <<>>
    /\ Contains(<<"f", "u", "n", "d">>, GivenCategory)
    /\ Contains(<<"f", "o", "o", "d">>, GivenCategory)
    /\ catn = <<"f", "u", "n", "d", "s", "_", "t", "r", "a", "n", "s", "f", "e", "r">>
    /\ result.spent_total = 0

Unrecognized == \A r \in 1..Len(RuleTable) : ~RuleMatches(r, GivenCategory)

\* C9 as stated: with no category_normalized, an empty or an unrecognized raw
\* category gives "other".
C9_UnrecognizedIsOther ==
    (Normalized /\ GivenNormalized = <<>> /\ Unrecognized) => catn = <<"o", "t", "h", "e", "r">>

\* C9 amended: with no category_normalized and no rule matching, an empty raw
\* category (None, "" or blank) gives "other", and any other raw category is
\* returned trimmed and lower-cased.
C9_EmptyIsOtherElseRaw ==
    (Normalized /\ GivenNormalized = <<>> /\ Unrecognized) =>
        /\ GivenCategory = <<>> => catn = <<"o", "t", "h", "e", "r">>
        /\ GivenCategory # <<>> => catn = GivenCategory

\* a blank raw category was normalized to "other"
C9_Witness ==
    /\ Normalized
    /\ entries[1].category_normalized = None
    /\ entries[1].category = <<" ", " ", " ">>
    /\ catn = <<"o", "t", "h", "e", "r">>

\* an unrecognized raw category was returned as it is
C9_WitnessRaw ==
    /\ Normalized
    /\ GivenNormalized = <<>>
    /\ Unrecognized
    /\ catn = <<"m", "i", "s", "c">>

\* the blob has a keyword of the set
BlobHas(keywords) == \E k \in keywords : Contains(k, text_blob(entries[1]))

\* C10: a home keyword in the blob gives (False, home_food_keyword) whatever
\* else; otherwise a restaurant keyword gives (True, restaurant_keyword);
\* otherwise an amount >= 1800 gives (True, expensive_food_amount); otherwise
\* (False, unknown_food_type).  The boolean is True exactly for the reasons
\* restaurant_keyword and expensive_food_amount.
C10_FoodRulesInOrder ==
    pc = "done" =>
        LET home == BlobHas(HOME_FOOD_KEYWORDS)
            rest == BlobHas(RESTAURANT_KEYWORDS)
            amt  == to_float(entries[1].amount)
        IN  /\ home => result = [is_rest |-> FALSE, reason |-> "home_food_keyword"]
            /\ (~home /\ rest) =>
                  result = [is_rest |-> TRUE, reason |-> "restaurant_keyword"]
            /\ (~home /\ ~rest /\ amt >= Rs(1800)) =>
                  result = [is_rest |-> TRUE, reason |-> "expensive_food_amount"]
            /\ (~home /\ ~rest /\ amt < Rs(1800)) =>
                  result = [is_rest |-> FALSE, reason |-> "unknown_food_type"]
            /\ result.is_rest <=>
                  result.reason \in {"restaurant_keyword", "expensive_food_amount"}

\* a blob with a home and a restaurant keyword and a large amount was
\* classified
C10_Witness ==
    /\ pc = "done"
    /\ BlobHas(HOME_FOOD_KEYWORDS)
    /\ BlobHas(RESTAURANT_KEYWORDS)
    /\ to_float(entries[1].amount) >= Rs(1800)
    /\ result = [is_rest |-> FALSE, reason |-> "home_food_keyword"]

\* the first day of the k-th month after the month of d
MonthAfter(d, k) ==
    LET n == d.year * 12 + (d.month - 1) + k
    IN  date(n \div 12, (n % 12) + 1, 1)

\* r lists the calendar months that intersect [st, en): it starts at the
\* month of st, goes on month by month, its last month begins before en and
\* the month after that does not
IsMonthsOfRange(r, st, en) ==
    /\ r # <<>>
    /\ r[1] = month_str(st)
    /\ \A k \in 1..Len(r) : r[k] = month_str(MonthAfter(st, k - 1))
    /\ \A j, k \in 1..Len(r) : j # k => r[j] # r[k]
    /\ Before(MonthAfter(st, Len(r) - 1), en)
    /\ ~Before(MonthAfter(st, Len(r)), en)
    /\ ~InSeq(month_str(en), r) \/ en.day # 1

\* C11: split_range_by_month(start, end) returns for all dates: [] when
\* end <= start, and when start < end the calendar months that intersect
\* [start, end), in chronological order and without duplicates, from the
\* month of start on, a month whose first day is end not among them.
C11_SplitReturnsMonthsOfRange ==
    /\ pc # "raised"
    /\ pc = "done" =>
          IF Before(start, end) THEN IsMonthsOfRange(result, start, end)
          ELSE result = <<>>

\* The call raises exactly when start < end and end is after the first of
\* December of MAXYEAR, and returns what C11 says for every other range; the
\* steps agree with split_range_by_month as a function.
SplitReturnsUnlessYearOverflows ==
    /\ pc = "raised" =>
          /\ Before(start, end)
          /\ Before(date(MAXYEAR, 12, 1), end)
          /\ split_range_by_month(start, end).raised
    /\ pc = "while" => Before(start, end) /\ Len(out) <= MonthsSpanned(start, end)
    /\ pc = "done" =>
          /\ split_range_by_month(start, end) = [raised |-> FALSE, value |-> result]
          /\ ~Before(start, end) \/ ~Before(date(MAXYEAR, 12, 1), end)
          /\ IF Before(start, end) THEN IsMonthsOfRange(result, start, end)
             ELSE result = <<>>

\* a range from the middle of a month to the first day of a later month
\* in another year was split in three months
SplitWitness ==
    /\ pc = "done"
    /\ start.day = 15
    /\ end.day = 1
    /\ start.year < end.year
    /\ Len(result) = 3

\* the first days of a month strictly between st and en
Mids(st, en) ==
    {mid \in {MonthAfter(st, k) : k \in 1..MonthsSpanned(st, en)} :
        Before(st, mid) /\ Before(mid, en)}

Distance(a, b) == IF a < b THEN b - a ELSE a - b

\* the smallest amount round(total, 2) tells apart
Cent == Rs(1) \div 100

\* C12: for any start < mid < end with mid the first day of a month, and any
\* table of monthly budgets, prorate(start, mid) + prorate(mid, end) equals
\* prorate(start, end) up to the final rounding to 2 decimals.
C12_ProrateAdditive ==
    pc \in {"done", "raised"} =>
        \A mid \in Mids(start, end) :
            LET  a == prorate_monthly_budget_for_range(monthly_budgets, start, mid)
                 b == prorate_monthly_budget_for_range(monthly_budgets, mid, end)
                 c == prorate_monthly_budget_for_range(monthly_budgets, start, end)
            IN   /\ ~a.raised /\ ~b.raised /\ ~c.raised
                 /\ pc = "done" /\ result = c.value
                 /\ Distance(a.value + b.value, c.value) <= Cent

\* the days of the month begun by ms that are in [st, en)
OverlapDays(ms, st, en) ==
    Cardinality({d \in 1..DaysInMonth(ms.year, ms.month) :
        LET day == date(ms.year, ms.month, d)
        IN  ~Before(day, st) /\ Before(day, en)})

\* the budget of the month begun by ms, 0 without a row or a positive amount
BudgetOf(db, ms) ==
    LET b == fetch_month_budget(db, month_str(ms))
    IN  IF b = <<>> THEN 0
        ELSE IF to_float(OrNum(b[1].budget_amount, <<0>>)) <= 0 THEN 0
        ELSE to_float(OrNum(b[1].budget_amount, <<0>>))

\* the sum of monthly_budget / days_in_month * overlap_days over the n months
\* from the month of st on
RECURSIVE Contributions(_, _, _, _)
Contributions(db, st, en, n) ==
    IF n = 0 THEN Exact(0, 0, 1)
    ELSE LET ms == MonthAfter(st, n - 1)
         IN  AddFraction(Contributions(db, st, en, n - 1),
                         BudgetOf(db, ms) * OverlapDays(ms, st, en),
                         DaysInMonth(ms.year, ms.month))

\* the total of a range before it is rounded
Unrounded(db, st, en) ==
    For(Exact(0, 0, 1), split_range_by_month(st, en).value, st, en, db).total

\* The call raises exactly when start < end and end is after the first of
\* December of MAXYEAR.  For every other range it returns the rounded sum of
\* the months' contributions, the totals of the two parts of a partition add
\* up exactly before rounding and within a cent after it, and the steps
\* agree with prorate_monthly_budget_for_range as a function.
ProrateAdditiveUnlessYearOverflows ==
    /\ pc = "raised" =>
          /\ Before(start, end)
          /\ Before(date(MAXYEAR, 12, 1), end)
          /\ prorate_monthly_budget_for_range(monthly_budgets, start, end).raised
    /\ pc = "done" =>
          /\ ~Before(start, end) \/ ~Before(date(MAXYEAR, 12, 1), end)
          /\ prorate_monthly_budget_for_range(monthly_budgets, start, end)
                = [raised |-> FALSE, value |-> result]
          /\ ~Before(start, end) => result = 0
          /\ Before(start, end) =>
                /\ total = Contributions(monthly_budgets, start, end,
                                         MonthsSpanned(start, end))
                /\ result = Round2Exact(total)
                /\ ~(total.num = 0 /\ total.whole % Cent = Cent \div 2)
          /\ \A mid \in Mids(start, end) :
                LET  a == prorate_monthly_budget_for_range(monthly_budgets, start, mid)
                     b == prorate_monthly_budget_for_range(monthly_budgets, mid, end)
                     ua == Unrounded(monthly_budgets, start, mid)
                     ub == Unrounded(monthly_budgets, mid, end)
                IN   /\ ~a.raised /\ ~b.raised
                     /\ AddFraction(AddFraction(ua, ub.whole, 1), ub.num, ub.den)
                           = total
                     /\ Distance(a.value + b.value, result) <= Cent

\* a range over three or more months was split at a month boundary and the
\* rounded parts do not add up to the rounded whole
ProrateWitness ==
    /\ pc = "done"
    /\ Len(months) >= 3
    /\ \E mid \in Mids(start, end) :
          /\ prorate_monthly_budget_for_range(monthly_budgets, start, mid).value > 0
          /\ prorate_monthly_budget_for_range(monthly_budgets, mid, end).value > 0
          /\ prorate_monthly_budget_for_range(monthly_budgets, start, mid).value
               + prorate_monthly_budget_for_range(monthly_budgets, mid, end).value
                 # result

\* the UTC days of the counted entries of es whose created_at parses
DayBuckets(es) ==
    {day_key(parse_ts(es[j].created_at)) :
        j \in {k \in 1..Len(es) : /\ Counted(es[k])
                                  /\ parse_ts(es[k].created_at) # NoDatetime}}

\* C13: SPIKE_DETECTED is not reported when the counted entries with a
\* parseable timestamp fall on fewer than 3 distinct UTC days, whatever their
\* amounts: every day bucket is strictly positive and the average is over
\* the buckets, so max_day >= 2.5 * avg_day needs a third bucket.
C13_NoSpikeBelowThreeDays ==
    /\ \A j \in 1..Len(daily_totals) : daily_totals[j].v > 0
    /\ pc = "done" =>
          /\ Len(daily_totals) = Cardinality(DayBuckets(entries))
          /\ Cardinality(DayBuckets(entries)) < 3 =>
                ~InSeq("SPIKE_DETECTED", result.warnings)

\* two day buckets, one of them of 5000 or more and over 2.5 times the
\* other, and no spike is reported
C13_Witness ==
    /\ pc = "done"
    /\ Cardinality(DayBuckets(entries)) = 2
    /\ \E j, k \in 1..Len(daily_totals) :
          /\ daily_totals[j].v >= Rs(5000)
          /\ 2 * daily_totals[j].v >= 5 * daily_totals[k].v
    /\ ~InSeq("SPIKE_DETECTED", result.warnings)

====
